---- MODULE Spec2Model ----
(***************************************************************************)
(* A model of the go-id3 tag reader: the ID3v2 header parser, the three    *)
(* frame-size codecs, the buffered byte cursor, the frame loop of          *)
(* parseID3v2File, the text decoder and the genre resolver.                *)
(*                                                                         *)
(* Go strings and byte slices are sequences of byte values 0..255 (a Go    *)
(* string is its UTF-8 bytes).  Genre-table entries and the fixed genre    *)
(* names are one-element sequences holding a number above 255, so they     *)
(* can never be confused with text read from a frame.                      *)
(*                                                                         *)
(* The bytes of the stream are chosen when the cursor delivers them: a     *)
(* behaviour of the model is a run of the parser on one stream, and the    *)
(* set of behaviours covers every stream within the bounds.  The           *)
(* underlying io.Reader may deliver any positive number of bytes per       *)
(* call, and may end at any point.                                         *)
(***************************************************************************)
EXTENDS Integers, Sequences, FiniteSets, TLC

VARIABLES
    mode,       \* which entry point this behaviour exercises
    input,      \* argument of the pure function under study
    output,     \* its result, meaningful once applied
    applied,    \* TRUE once the function has been applied
    pc,         \* position of Read / parseID3v2File
    header,     \* the parsed ID3v2Header (NoHeader before the header is parsed)
    capN,       \* io.LimitedReader.N: bytes the capped stream may still deliver
    buffered,   \* bytes held in lreader's buffer, not yet consumed
    eof,        \* the capped stream has reported its end
    pos,        \* bytes consumed from lreader
    peeked,     \* the identifier bytes hasID3v2Frame looked at
    tag,        \* identifier of the frame being read
    size,       \* declared size of the frame being read
    tags,       \* the SimpleTags record being filled
    result,     \* outcome of Read: "none", "record", "error", "panic"
    hist        \* history of the frame in progress and of the frames read

vars == <<mode, input, output, applied, pc, header, capN, buffered, eof, pos,
          peeked, tag, size, tags, result, hist>>

pureVars == <<input, output, applied>>
parseVars == <<pc, header, capN, buffered, eof, pos, peeked, tag, size, tags,
               result, hist>>

-----------------------------------------------------------------------------
(* Bounds of the model.                                                    *)

\* largest declared tag size (header.Size) a behaviour starts with
MaxSize == 24
\* longest frame body a size field of the model declares in range
MaxBody == 2
\* longest genre string drawn from the genre alphabet
MaxGenreLen == 4
\* longest byte slice handed to the text decoder
MaxText == 5
\* number of entries of the genre table
GenreCount == 3
\* largest read length, buffer fill and stream rest handed to the cursor
MaxRead == 4
\* bytes a stream holds in front of its legacy tag
ExtraBytes == 10

-----------------------------------------------------------------------------
(* Arithmetic on machine words.                                            *)

Min(a, b) == IF a < b THEN a ELSE b
Max(a, b) == IF a > b THEN a ELSE b

RECURSIVE Pow2(_)
Pow2(k) == IF k = 0 THEN 1 ELSE 2 * Pow2(k - 1)

\* a & b on non-negative integers
RECURSIVE BitAnd(_, _)
BitAnd(a, b) ==
    IF a = 0 \/ b = 0 THEN 0
    ELSE (IF a % 2 = 1 /\ b % 2 = 1 THEN 1 ELSE 0) + 2 * BitAnd(a \div 2, b \div 2)

\* a | b on non-negative integers
RECURSIVE BitOr(_, _)
BitOr(a, b) ==
    IF a = 0 THEN b
    ELSE IF b = 0 THEN a
    ELSE (IF a % 2 = 1 \/ b % 2 = 1 THEN 1 ELSE 0) + 2 * BitOr(a \div 2, b \div 2)

\* uint8(x) << k
Shl8(x, k) == (x * Pow2(k)) % 256

Byte == 0..255

-----------------------------------------------------------------------------
(* Header parser and size codecs.                                          *)

\* the bit position in each flag expression of parseID3v2Header
UnsyncBit == 7
ExtendedBit == 6
ExperimentalBit == 5
FooterBit == 4

\* data[5]&1<<k != 0.  Go gives & and << the same precedence and groups
\* them from the left, so the expression is (data[5]&1)<<k != 0.
HeaderFlag(b, k) == Shl8(BitAnd(b, 1), k) # 0

\* int32(b&0x7f) << shift, or-ed into size, for each byte of data
RECURSIVE SyncSafeFrom(_, _, _)
SyncSafeFrom(data, i, acc) ==
    IF i > Len(data) THEN acc
    ELSE SyncSafeFrom(data, i + 1,
             BitOr(acc, BitAnd(data[i], 127) * Pow2((Len(data) - i) * 7)))

\* the same loop with every byte shifted by a multiple of 8 instead of 7
RECURSIVE PlainFrom(_, _, _)
PlainFrom(data, i, acc) ==
    IF i > Len(data) THEN acc
    ELSE PlainFrom(data, i + 1,
             BitOr(acc, BitAnd(data[i], 127) * Pow2((Len(data) - i) * 8)))

\* the same loop without the mask b&0x7f
RECURSIVE UnmaskedFrom(_, _, _)
UnmaskedFrom(data, i, acc) ==
    IF i > Len(data) THEN acc
    ELSE UnmaskedFrom(data, i + 1,
             BitOr(acc, data[i] * Pow2((Len(data) - i) * 7)))

parseID3v2Size_NoMask(data) == UnmaskedFrom(data, 1, 0)

parseID3v2Size_Shift8(data) == PlainFrom(data, 1, 0)

parseID3v2Size(data) == SyncSafeFrom(data, 1, 0)

parseID3v2Header(data) ==
    [ Version           |-> data[4],
      MinorVersion      |-> data[5],
      Unsynchronization |-> HeaderFlag(data[6], UnsyncBit),
      Extended          |-> HeaderFlag(data[6], ExtendedBit),
      Experimental      |-> HeaderFlag(data[6], ExperimentalBit),
      Footer            |-> HeaderFlag(data[6], FooterBit),
      Size              |-> parseID3v2Size(SubSeq(data, 7, 10)) ]

\* int(size[0])<<16 | int(size[1])<<8 | int(size[2])
parseID3v22FrameSize(b) == BitOr(BitOr(b[1] * 65536, b[2] * 256), b[3])

\* binary.Read(reader, binary.BigEndian, &size) with size an int32: the four
\* bytes as a two's complement number
parseID3v23FrameSize(b) ==
    (IF b[1] >= 128 THEN b[1] - 256 ELSE b[1]) * 16777216
        + b[2] * 65536 + b[3] * 256 + b[4]

parseID3v24FrameSize(b) == parseID3v2Size(b)

-----------------------------------------------------------------------------
(* Text decoder.                                                           *)

\* string(rune(r)): the UTF-8 bytes of one code point; a surrogate or a
\* value above U+10FFFF becomes U+FFFD
EncodeRune(r) ==
    IF r < 128 THEN <<r>>
    ELSE IF r < 2048 THEN <<192 + (r \div 64), 128 + (r % 64)>>
    ELSE IF (r >= 55296 /\ r <= 57343) \/ r > 1114111 THEN <<239, 191, 189>>
    ELSE IF r < 65536
        THEN <<224 + (r \div 4096), 128 + ((r \div 64) % 64), 128 + (r % 64)>>
    ELSE <<240 + (r \div 262144), 128 + ((r \div 4096) % 64),
           128 + ((r \div 64) % 64), 128 + (r % 64)>>

RECURSIVE EncodeRunes(_)
EncodeRunes(rs) ==
    IF rs = <<>> THEN <<>> ELSE EncodeRune(Head(rs)) \o EncodeRunes(Tail(rs))

\* p[i] = rune(b) for every byte, then string(p)
ISO8859_1ToUTF8(data) == EncodeRunes(data)

\* unicode/utf16.Decode: surrogate pairs are combined, a lone surrogate
\* becomes U+FFFD
RECURSIVE Utf16Decode(_)
Utf16Decode(u) ==
    IF u = <<>> THEN <<>>
    ELSE IF Head(u) < 55296 \/ Head(u) >= 57344
        THEN <<Head(u)>> \o Utf16Decode(Tail(u))
    ELSE IF /\ Head(u) < 56320
            /\ Len(u) >= 2
            /\ u[2] >= 56320
            /\ u[2] < 57344
        THEN <<(Head(u) - 55296) * 1024 + (u[2] - 56320) + 65536>>
                 \o Utf16Decode(SubSeq(u, 3, Len(u)))
    ELSE <<65533>> \o Utf16Decode(Tail(u))

\* a trim that removes one trailing NUL only
TrimRightNul_Once(s) ==
    IF s # <<>> /\ s[Len(s)] = 0 THEN SubSeq(s, 1, Len(s) - 1) ELSE s

\* strings.TrimRight(s, "\u0000")
RECURSIVE TrimRightNul(_)
TrimRightNul(s) ==
    IF s # <<>> /\ s[Len(s)] = 0 THEN TrimRightNul(SubSeq(s, 1, Len(s) - 1)) ELSE s

\* the loop of toUTF16 with shift0 = 0, shift1 = 8
UnitsLE(d) == [i \in 1..((Len(d) - 2) \div 2) |-> BitOr(d[2 * i + 1], d[2 * i + 2] * 256)]

Panicked == [panic |-> TRUE, units |-> <<>>]

toUTF16(data) ==
    IF Len(data) < 2 THEN Panicked
    ELSE LET d == IF Len(data) % 2 > 0 THEN Append(data, 0) ELSE data
         IN  IF d[1] = 255 /\ d[2] = 254 THEN [panic |-> FALSE, units |-> UnitsLE(d)]
             ELSE IF d[1] = 254 /\ d[2] = 255 THEN Panicked   \* "UTF-16 BE found!"
             ELSE Panicked                                   \* "Unrecognized UTF-16 BOM"

StringPanic == [kind |-> "panic", s |-> <<>>]
StringOk(s) == [kind |-> "ok", s |-> TrimRightNul(s)]

\* parseID3v2String: data[0] selects the encoding; indexing an empty slice,
\* a panic of toUTF16 and encoding 2 abort the process
parseID3v2String(data) ==
    IF data = <<>> THEN StringPanic
    ELSE IF data[1] = 0 THEN StringOk(ISO8859_1ToUTF8(Tail(data)))
    ELSE IF data[1] = 1 THEN
        LET u == toUTF16(Tail(data))
        IN  IF u.panic THEN StringPanic ELSE StringOk(EncodeRunes(Utf16Decode(u.units)))
    ELSE IF data[1] = 2 THEN StringPanic
    ELSE IF data[1] = 3 THEN StringOk(Tail(data))
    ELSE StringOk(ISO8859_1ToUTF8(data))

-----------------------------------------------------------------------------
(* Genre resolver.                                                         *)

\* the genre table as convertID3v1Genre uses it: it takes its length and
\* indexes it, so entry i is left uninterpreted, a name of its own
id3v1Genres == [i \in 0..(GenreCount - 1) |-> <<1000 + i>>]

GenreUnknown == <<999>>
GenreRemix == <<998>>
GenreCover == <<997>>

HasPrefix(s, p) == Len(s) >= Len(p) /\ SubSeq(s, 1, Len(p)) = p

IsDigit(c) == c >= 48 /\ c <= 57
IsSign(c) == c = 43 \/ c = 45

\* the decimal digits of the largest int (64 bits): 9223372036854775807
MaxIntDigits == <<57, 50, 50, 51, 51, 55, 50, 48, 51, 54, 56, 53, 52, 55, 55, 53, 56, 48, 55>>

RECURSIVE StripZeros(_)
StripZeros(ds) ==
    IF Len(ds) > 1 /\ Head(ds) = 48 THEN StripZeros(Tail(ds)) ELSE ds

\* a <= b for digit strings of the same length
RECURSIVE DigitsLeq(_, _)
DigitsLeq(a, b) ==
    IF a = <<>> THEN TRUE
    ELSE IF Head(a) < Head(b) THEN TRUE
    ELSE IF Head(a) > Head(b) THEN FALSE
    ELSE DigitsLeq(Tail(a), Tail(b))

\* the number fits an int: at most 2^63 - 1, or 2^63 when negative
FitsInt(neg, ds) ==
    LET d == StripZeros(ds)
        top == IF neg THEN [MaxIntDigits EXCEPT ![19] = 56] ELSE MaxIntDigits
    IN  \/ Len(d) < 19
        \/ Len(d) = 19 /\ DigitsLeq(d, top)

\* the value of a digit string, saturated far above every table length
RECURSIVE DigitsValue(_, _)
DigitsValue(ds, acc) ==
    IF ds = <<>> THEN acc
    ELSE DigitsValue(Tail(ds), Min(acc * 10 + (Head(ds) - 48), 1000000))

NoInt == [ok |-> FALSE, val |-> 0]

\* an optional sign and one or more digits, as strconv.ParseInt(s, 10, 0)
ParseInt(s) ==
    LET neg == s # <<>> /\ Head(s) = 45
        ds == IF s # <<>> /\ IsSign(Head(s)) THEN Tail(s) ELSE s
    IN  IF ds = <<>> \/ (\E i \in 1..Len(ds) : ~IsDigit(ds[i])) THEN NoInt
        ELSE IF ~FitsInt(neg, ds) THEN NoInt
        ELSE [ok |-> TRUE, val |-> IF neg THEN 0 - DigitsValue(ds, 0) ELSE DigitsValue(ds, 0)]

\* strconv.Atoi(genre)
Atoi(s) == ParseInt(s)

RECURSIVE SkipSpace(_)
SkipSpace(s) ==
    IF s # <<>> /\ (Head(s) = 32 \/ Head(s) = 9) THEN SkipSpace(Tail(s)) ELSE s

RECURSIVE DigitRun(_)
DigitRun(s) ==
    IF s # <<>> /\ IsDigit(Head(s)) THEN 1 + DigitRun(Tail(s)) ELSE 0

\* fmt.Sscanf(genre, "(%d)", &index): the literal "(", white space, an
\* optional sign, the longest run of digits, the literal ")"; what follows
\* is not looked at
SscanfParen(s) ==
    IF s = <<>> \/ Head(s) # 40 THEN NoInt
    ELSE LET r == SkipSpace(Tail(s))
             signed == r # <<>> /\ IsSign(Head(r))
             d == IF signed THEN Tail(r) ELSE r
             n == DigitRun(d)
             tok == SubSeq(r, 1, n + (IF signed THEN 1 ELSE 0))
         IN  IF n = 0 THEN NoInt
             ELSE IF ~ParseInt(tok).ok THEN NoInt
             ELSE IF Len(d) = n \/ d[n + 1] # 41 THEN NoInt
             ELSE ParseInt(tok)

\* the bounds check with the last entry of the table left out
GenreAt_ShortTable(index) ==
    IF index >= 0 /\ index < GenreCount - 1 THEN id3v1Genres[index] ELSE GenreUnknown

\* index >= 0 && index < len(id3v1Genres)
GenreAt(index) ==
    IF index >= 0 /\ index < GenreCount THEN id3v1Genres[index] ELSE GenreUnknown

convertID3v1Genre(genre) ==
    IF genre = <<82, 88>> \/ HasPrefix(genre, <<40, 82, 88, 41>>) THEN GenreRemix
    ELSE IF genre = <<67, 82>> \/ HasPrefix(genre, <<40, 67, 82, 41>>) THEN GenreCover
    ELSE IF Atoi(genre).ok THEN GenreAt(Atoi(genre).val)
    ELSE IF SscanfParen(genre).ok THEN GenreAt(SscanfParen(genre).val)
    ELSE genre

-----------------------------------------------------------------------------
(* Identifier-to-field tables.  Identifiers are their ASCII bytes.  The     *)
(* title field is called "name" in the older files and "title" in the      *)
(* newer ones; the model calls it "title" throughout.                      *)

ID3v22TagsIds ==
    { <<84, 65, 76>>, <<84, 80, 49>>, <<67, 79, 77>>, <<84, 67, 77>>,
      <<84, 67, 82>>, <<84, 80, 65>>, <<84, 67, 79>>, <<84, 69, 78>>,
      <<84, 83, 83>>, <<84, 76, 65>>, <<84, 77, 84>>, <<84, 79, 65>>,
      <<84, 84, 50>>, <<84, 82, 75>>, <<84, 88, 84>>, <<84, 89, 69>> }

ID3v22Tags ==
    [id \in ID3v22TagsIds |->
        CASE id = <<84, 65, 76>> -> "album"
          [] id = <<84, 80, 49>> -> "artist"
          [] id = <<67, 79, 77>> -> "comments"
          [] id = <<84, 67, 77>> -> "composer"
          [] id = <<84, 67, 82>> -> "copyright"
          [] id = <<84, 80, 65>> -> "disc"
          [] id = <<84, 67, 79>> -> "genre"
          [] id = <<84, 69, 78>> -> "encodedby"
          [] id = <<84, 83, 83>> -> "encoder"
          [] id = <<84, 76, 65>> -> "language"
          [] id = <<84, 77, 84>> -> "media"
          [] id = <<84, 79, 65>> -> "originalartist"
          [] id = <<84, 84, 50>> -> "title"
          [] id = <<84, 82, 75>> -> "track"
          [] id = <<84, 88, 84>> -> "writer"
          [] id = <<84, 89, 69>> -> "year" ]

ID3v23TagsIds ==
    { <<84, 65, 76, 66>>, <<84, 82, 67, 75>>, <<84, 80, 69, 49>>, <<84, 73, 84, 50>>,
      <<84, 89, 69, 82>>, <<84, 80, 79, 83>>, <<84, 67, 79, 78>>, <<84, 76, 69, 78>> }

ID3v23Tags ==
    [id \in ID3v23TagsIds |->
        CASE id = <<84, 65, 76, 66>> -> "album"
          [] id = <<84, 82, 67, 75>> -> "track"
          [] id = <<84, 80, 69, 49>> -> "artist"
          [] id = <<84, 73, 84, 50>> -> "title"
          [] id = <<84, 89, 69, 82>> -> "year"
          [] id = <<84, 80, 79, 83>> -> "disc"
          [] id = <<84, 67, 79, 78>> -> "genre"
          [] id = <<84, 76, 69, 78>> -> "length" ]

ID3v24TagsIds ==
    { <<84, 65, 76, 66>>, <<84, 82, 67, 75>>, <<84, 80, 69, 49>>, <<84, 73, 84, 50>>,
      <<84, 68, 82, 67>>, <<84, 80, 79, 83>>, <<84, 67, 79, 78>>, <<84, 76, 69, 78>> }

ID3v24Tags ==
    [id \in ID3v24TagsIds |->
        CASE id = <<84, 65, 76, 66>> -> "album"
          [] id = <<84, 82, 67, 75>> -> "track"
          [] id = <<84, 80, 69, 49>> -> "artist"
          [] id = <<84, 73, 84, 50>> -> "title"
          [] id = <<84, 68, 82, 67>> -> "year"
          [] id = <<84, 80, 79, 83>> -> "disc"
          [] id = <<84, 67, 79, 78>> -> "genre"
          [] id = <<84, 76, 69, 78>> -> "length" ]

\* what the switch on header.Version selects: identifier width, size codec,
\* table; flags tells whether "header.Version == 3 || header.Version == 4"
Unsupported == [ok |-> FALSE, tagLen |-> 0, sizeLen |-> 0, flags |-> 0, table |-> ID3v24Tags]

FrameLayout_DefaultV4(v) ==
    CASE v = 2 -> [ok |-> TRUE, tagLen |-> 3, sizeLen |-> 3, flags |-> 0, table |-> ID3v22Tags]
      [] v = 3 -> [ok |-> TRUE, tagLen |-> 4, sizeLen |-> 4, flags |-> 2, table |-> ID3v23Tags]
      [] OTHER -> [ok |-> TRUE, tagLen |-> 4, sizeLen |-> 4, flags |-> 2, table |-> ID3v24Tags]

FrameLayout(v) ==
    CASE v = 2 -> [ok |-> TRUE, tagLen |-> 3, sizeLen |-> 3, flags |-> 0, table |-> ID3v22Tags]
      [] v = 3 -> [ok |-> TRUE, tagLen |-> 4, sizeLen |-> 4, flags |-> 2, table |-> ID3v23Tags]
      [] v = 4 -> [ok |-> TRUE, tagLen |-> 4, sizeLen |-> 4, flags |-> 2, table |-> ID3v24Tags]
      [] OTHER -> Unsupported

\* the size codec the switch assigns to parseSize
FrameSize_AllSyncSafe(v, b) ==
    IF v = 2 THEN parseID3v22FrameSize(b) ELSE parseID3v24FrameSize(b)

FrameSize(v, b) ==
    CASE v = 2 -> parseID3v22FrameSize(b)
      [] v = 3 -> parseID3v23FrameSize(b)
      [] OTHER -> parseID3v24FrameSize(b)

-----------------------------------------------------------------------------
(* The byte cursor: a bufio.Reader over a capped stream.  cN is the        *)
(* number of bytes the cap still allows, bf the number of buffered bytes,  *)
(* ef tells that the stream has reported its end.  Each operator gives     *)
(* the set of outcomes the stream can produce.                             *)

\* size of the buffer bufio.NewReader allocates
BufSize == 4096

Outcome(ok, n, cN, bf, ef, hitEnd) ==
    [ok |-> ok, n |-> n, capN |-> cN, buffered |-> bf, eof |-> ef, hitEnd |-> hitEnd]

\* reader.Peek(n): fills until n bytes are buffered or the stream ends
PeekOutcomes(n, cN, bf, ef) ==
    IF bf >= n THEN { Outcome(TRUE, 0, cN, bf, ef, FALSE) }
    ELSE { Outcome(TRUE, 0, cN - (t - bf), t, ef, FALSE) :
             t \in IF ef THEN {} ELSE n..Min(bf + cN, BufSize) }
         \cup
         { Outcome(FALSE, 0, cN - d, bf + d, TRUE, TRUE) :
             d \in 0..(IF ef THEN 0 ELSE Min(cN, n - 1 - bf)) }

\* one reader.Read(p) with len(p) = c: what is buffered, or else the bytes
\* of a single read of the stream
ReadOutcomes(c, cN, bf, ef) ==
    IF c = 0 THEN { Outcome(TRUE, 0, cN, bf, ef, FALSE) }
    ELSE IF bf > 0 THEN { Outcome(bf >= c, Min(c, bf), cN, bf - Min(c, bf), ef, FALSE) }
    ELSE { Outcome(FALSE, 0, cN, 0, TRUE, TRUE) }
         \cup
         { Outcome(k >= c, Min(c, k), cN - k, k - Min(c, k), ef, FALSE) :
             k \in IF ef THEN {}
                   ELSE 1..Min(cN, IF c >= BufSize THEN c ELSE BufSize) }

\* Read called until c bytes have arrived or the stream ends (io.ReadFull,
\* the loop of skipBytes)
LoopReadOutcomes(c, cN, bf, ef) ==
    IF c <= 0 THEN { Outcome(TRUE, 0, cN, bf, ef, FALSE) }
    ELSE IF c <= bf THEN { Outcome(TRUE, c, cN, bf - c, ef, FALSE) }
    ELSE { Outcome(TRUE, c, cN - (c - bf) - l, l, ef, FALSE) :
             l \in IF ef THEN {} ELSE 0..Min(cN - (c - bf), BufSize - 1) }
         \cup
         { Outcome(FALSE, bf + d, cN - d, 0, TRUE, TRUE) :
             d \in 0..(IF ef THEN 0 ELSE Min(cN, c - bf - 1)) }

\* readBytes(reader, c): make([]byte, c), one Read, "short read" unless n = c
readBytes(c, cN, bf, ef) == ReadOutcomes(c, cN, bf, ef)

\* skipBytes(reader, c): panics when a Read fails
skipBytes(c, cN, bf, ef) == LoopReadOutcomes(c, cN, bf, ef)

\* (c < 'A' || c > 'Z') && (c < '0' || c > '9') rejects the byte
ValidIdByte_AnyLetter(c) == ~((c < 65 \/ c > 122) /\ (c < 48 \/ c > 57))

ValidIdByte(c) == ~((c < 65 \/ c > 90) /\ (c < 48 \/ c > 57))

ValidId(data) == \A i \in 1..Len(data) : ValidIdByte(data[i])

-----------------------------------------------------------------------------
(* The state of a behaviour that exercises one pure function: the parser   *)
(* variables rest.                                                         *)

NoHeader ==
    [ Version |-> -1, MinorVersion |-> 0, Unsynchronization |-> FALSE,
      Extended |-> FALSE, Experimental |-> FALSE, Footer |-> FALSE, Size |-> 0 ]

Fields == {"album", "track", "artist", "title", "year", "disc", "genre", "length"}

EmptyTags == [f \in Fields |-> <<>>]

\* what the run has seen so far: where the frame in progress started, the
\* bytes read as its identifier, size field and flags, the fields for which
\* a frame occurred (seen), those whose last frame body was read whole, the
\* decoded value of that body (last), the bytes of a body that a short read
\* left unread and the stream has yet to deliver (owed), whether the stream
\* ended inside a frame (cut), why the lookahead stopped the loop (stop),
\* frames completed
NoHist ==
    [ frameStart |-> 0, idLen |-> 0, sizeField |-> <<>>, flagBytes |-> 0,
      seen |-> {}, whole |-> {}, last |-> EmptyTags, owed |-> 0, cut |-> FALSE,
      stop |-> "", frames |-> 0 ]

ParserAtRest ==
    /\ pc = "rest"
    /\ header = NoHeader
    /\ capN = 0
    /\ buffered = 0
    /\ eof = FALSE
    /\ pos = 0
    /\ peeked = <<>>
    /\ tag = <<>>
    /\ size = 0
    /\ tags = EmptyTags
    /\ result = "none"
    /\ hist = NoHist

-----------------------------------------------------------------------------
(* parseID3v2Header applied to every flag byte.                            *)

HeaderVersions == {2, 3, 4}

HeaderInputs ==
    { <<73, 68, 51, v, 0, f, 0, 0, 1, 2>> : v \in HeaderVersions, f \in Byte }

InitHeader ==
    /\ mode = "header"
    /\ input \in HeaderInputs
    /\ output = NoHeader
    /\ applied = FALSE
    /\ ParserAtRest

ApplyHeader ==
    /\ mode = "header"
    /\ ~applied
    /\ output' = parseID3v2Header(input)
    /\ applied' = TRUE
    /\ UNCHANGED <<mode, input>>
    /\ UNCHANGED parseVars

NextHeader == ApplyHeader

SpecHeader == InitHeader /\ [][NextHeader]_vars

-----------------------------------------------------------------------------
(* The sync-safe codec: an integer is encoded into four bytes of seven     *)
(* bits, then decoded by parseID3v2Size; raw bytes are decoded as they     *)
(* are.                                                                    *)

Septets == {0, 1, 64, 127}

\* the integers whose four 7-bit digits are drawn from Septets
SizeValues ==
    { ((a * 128 + b) * 128 + c) * 128 + d :
        a \in Septets, b \in Septets, c \in Septets, d \in Septets }

RawSizeBytes == {0, 1, 127, 128, 129, 255}

\* k as four bytes of seven usable bits, most significant first
SyncSafeEncode(k) ==
    << (k \div 2097152) % 128, (k \div 16384) % 128, (k \div 128) % 128, k % 128 >>

InitSize ==
    /\ mode = "size"
    /\ \/ \E k \in SizeValues : input = [k |-> k, bytes |-> <<>>, encoded |-> FALSE]
       \/ \E a \in RawSizeBytes, b \in RawSizeBytes, c \in RawSizeBytes,
             d \in RawSizeBytes :
             input = [k |-> -1, bytes |-> <<a, b, c, d>>, encoded |-> TRUE]
    /\ output = 0
    /\ applied = FALSE
    /\ ParserAtRest

EncodeSize ==
    /\ mode = "size"
    /\ ~input.encoded
    /\ input' = [input EXCEPT !.bytes = SyncSafeEncode(input.k), !.encoded = TRUE]
    /\ UNCHANGED <<mode, output, applied>>
    /\ UNCHANGED parseVars

DecodeSize ==
    /\ mode = "size"
    /\ input.encoded
    /\ ~applied
    /\ output' = parseID3v2Size(input.bytes)
    /\ applied' = TRUE
    /\ UNCHANGED <<mode, input>>
    /\ UNCHANGED parseVars

NextSize == EncodeSize \/ DecodeSize

SpecSize == InitSize /\ [][NextSize]_vars

-----------------------------------------------------------------------------
(* The text decoder applied to every short byte slice.                     *)

TextBytes == {0, 1, 2, 3, 65, 254, 255}

SeqsUpTo(A, n) == UNION { [1..k -> A] : k \in 0..n }

\* longer bodies: UTF-16 "A" followed by a NUL code unit, codepage text
\* with bytes above 127, a body with a selector of its own
TextSpecials ==
    { <<1, 255, 254, 65, 0, 0, 0>>,
      <<0, 233, 65, 0, 0, 0>>,
      <<3, 195, 169, 65, 0, 0>>,
      <<84, 233, 0>>,
      <<4, 65, 0, 0>> }

TextInputs ==
    { [fn |-> f, data |-> d] :
        f \in {"toUTF16", "parseID3v2String"},
        d \in SeqsUpTo(TextBytes, MaxText) \cup TextSpecials }

InitText ==
    /\ mode = "text"
    /\ input \in TextInputs
    /\ output = Panicked
    /\ applied = FALSE
    /\ ParserAtRest

ApplyToUTF16 ==
    /\ mode = "text"
    /\ ~applied
    /\ input.fn = "toUTF16"
    /\ output' = toUTF16(input.data)
    /\ applied' = TRUE
    /\ UNCHANGED <<mode, input>>
    /\ UNCHANGED parseVars

ApplyParseString ==
    /\ mode = "text"
    /\ ~applied
    /\ input.fn = "parseID3v2String"
    /\ output' = parseID3v2String(input.data)
    /\ applied' = TRUE
    /\ UNCHANGED <<mode, input>>
    /\ UNCHANGED parseVars

NextText == ApplyToUTF16 \/ ApplyParseString

SpecText == InitText /\ [][NextText]_vars

-----------------------------------------------------------------------------
(* The genre resolver applied to every short string over an alphabet of    *)
(* blanks, parentheses, signs, digits and a letter, and to a few longer    *)
(* strings.                                                                *)

GenreAlphabet == {32, 40, 41, 45, 48, 50, 51, 65}

GenreSpecials ==
    { <<82, 88>>, <<67, 82>>, <<40, 82, 88, 41, 65, 65>>, <<40, 67, 82, 41>>,
      <<40, 50, 41, 32, 65, 65, 65>>,
      MaxIntDigits,
      [MaxIntDigits EXCEPT ![19] = 56],
      <<45>> \o [MaxIntDigits EXCEPT ![19] = 56],
      <<45>> \o [MaxIntDigits EXCEPT ![19] = 57],
      <<40>> \o [MaxIntDigits EXCEPT ![19] = 56] \o <<41>>,
      <<40>> \o MaxIntDigits \o <<41>> }

GenreInputs == SeqsUpTo(GenreAlphabet, MaxGenreLen) \cup GenreSpecials

InitGenre ==
    /\ mode = "genre"
    /\ input \in GenreInputs
    /\ output = <<>>
    /\ applied = FALSE
    /\ ParserAtRest

ApplyGenre ==
    /\ mode = "genre"
    /\ ~applied
    /\ output' = convertID3v1Genre(input)
    /\ applied' = TRUE
    /\ UNCHANGED <<mode, input>>
    /\ UNCHANGED parseVars

NextGenre == ApplyGenre

SpecGenre == InitGenre /\ [][NextGenre]_vars

-----------------------------------------------------------------------------
(* Read and parseID3v2File on one stream.                                  *)

ParseVersions == {0, 2, 3, 4, 5}

\* the declared tag sizes: an empty tag, a tag that ends half way, a full
\* tag; the stream itself may end at any byte
DeclaredSizes == {0, MaxSize \div 2, MaxSize}

\* the headers a run starts with: "ID3", version, revision 0, no flags, a
\* sync-safe size of at most MaxSize
ParseHeaders ==
    { <<73, 68, 51, v, 0, 0, 0, 0, 0, n>> : v \in ParseVersions, n \in DeclaredSizes }

\* the identifiers the stream may hold where a frame is expected: a title
\* frame, a genre frame, an identifier of the version 2 table that is none
\* of the eight fields, an identifier of no table, lower-case letters,
\* padding
IdChoices(v) ==
    IF v = 2
    THEN { <<84, 84, 50>>, <<84, 67, 79>>, <<67, 79, 77>>, <<80, 73, 67>>,
           <<116, 116, 50>>, <<0, 0, 0>> }
    ELSE { <<84, 73, 84, 50>>, <<84, 67, 79, 78>>, <<65, 80, 73, 67>>,
           <<116, 105, 116, 50>>, <<0, 0, 0, 0>> }

\* the size fields the stream may hold: 0..MaxBody, a size above every tag
\* of the model, a first byte with its top bit set, all bits set
SizeFields(v) ==
    IF v = 2
    THEN { <<0, 0, n>> : n \in 0..MaxBody } \cup { <<0, 1, 0>>, <<128, 0, 0>> }
    ELSE { <<0, 0, 0, n>> : n \in 0..MaxBody }
         \cup { <<0, 0, 1, 0>>, <<128, 0, 0, 0>>, <<255, 255, 255, 255>> }

\* the bytes of a frame body: the ISO-8859-1 selector, the selector that
\* aborts, the digit 1 and the letter A
BodyBytes == {0, 2, 49, 65}

Bodies(c) == [1..c -> BodyBytes]

InitParse ==
    /\ mode = "parse"
    /\ input = <<>>
    /\ output = <<>>
    /\ applied = FALSE
    /\ pc = "start"
    /\ header = NoHeader
    /\ capN = 0
    /\ buffered = 0
    /\ eof = FALSE
    /\ pos = 0
    /\ peeked = <<>>
    /\ tag = <<>>
    /\ size = 0
    /\ tags = EmptyTags
    /\ result = "none"
    /\ hist = NoHist

\* the cursor after outcome o
Advance(o) ==
    /\ capN' = o.capN
    /\ buffered' = o.buffered
    /\ eof' = o.eof
    /\ pos' = pos + o.n

\* the history after outcome o: the bytes the stream delivered count
\* against the owed ones, and a stream that ends while it owes bytes of a
\* body has ended inside a frame
Track(o) ==
    LET left == Max(0, hist.owed - (capN - o.capN))
    IN  [hist EXCEPT !.owed = left, !.cut = @ \/ (o.hitEnd /\ left > 0)]

\* return nil, err
ReturnError ==
    /\ pc' = "done"
    /\ result' = "error"

\* a panic leaves Read without a result
Panic ==
    /\ pc' = "done"
    /\ result' = "panic"

\* a cap one byte past the declared size
LimitReader_OneMore(n) == n + 1

\* io.LimitReader(reader, int64(header.Size)): N, the bytes it may deliver
LimitReader(n) == n

\* Read up to the frame loop: isID3Tag, parseID3v2Header, the switch on
\* header.Version, the capped reader
Start ==
    /\ mode = "parse"
    /\ pc = "start"
    /\ \E marker \in BOOLEAN, whole \in BOOLEAN, data \in ParseHeaders :
          IF ~marker \/ ~whole
          THEN /\ ReturnError
               /\ UNCHANGED <<header, capN>>
          ELSE LET h == parseID3v2Header(data)
               IN  /\ header' = h
                   /\ IF FrameLayout(h.Version).ok
                      THEN /\ pc' = "await"
                           /\ capN' = LimitReader(h.Size)
                           /\ UNCHANGED result
                      ELSE /\ ReturnError
                           /\ UNCHANGED capN
    /\ UNCHANGED <<mode, input, output, applied, buffered, eof, pos, peeked, tag,
                   size, tags, hist>>

\* hasID3v2Frame(lreader, tagLen); when it fails the loop ends and the
\* record is returned
AwaitFrame ==
    /\ mode = "parse"
    /\ pc = "await"
    /\ \E o \in PeekOutcomes(FrameLayout(header.Version).tagLen, capN, buffered, eof) :
          /\ Advance(o)
          /\ IF ~o.ok
             THEN /\ pc' = "done"
                  /\ result' = "record"
                  /\ peeked' = <<>>
                  /\ hist' = [Track(o) EXCEPT !.stop = "short"]
             ELSE \E id \in IdChoices(header.Version) :
                    /\ peeked' = id
                    /\ IF ValidId(id)
                       THEN /\ pc' = "id"
                            /\ hist' = Track(o)
                            /\ UNCHANGED result
                       ELSE /\ pc' = "done"
                            /\ result' = "record"
                            /\ hist' = [Track(o) EXCEPT !.stop = "invalid"]
    /\ UNCHANGED <<mode, input, output, applied, header, tag, size, tags>>

\* b, err := readBytes(lreader, tagLen); tag := string(b)
ReadIdentifier ==
    /\ mode = "parse"
    /\ pc = "id"
    /\ \E o \in readBytes(FrameLayout(header.Version).tagLen, capN, buffered, eof) :
          /\ Advance(o)
          /\ IF o.ok
             THEN /\ tag' = peeked
                  /\ pc' = "size"
                  /\ hist' = [Track(o) EXCEPT !.frameStart = pos, !.idLen = o.n,
                                           !.sizeField = <<>>, !.flagBytes = 0]
                  /\ UNCHANGED result
             ELSE /\ ReturnError
                  /\ hist' = [Track(o) EXCEPT !.cut = @ \/ o.hitEnd]
                  /\ UNCHANGED tag
    /\ UNCHANGED <<mode, input, output, applied, header, peeked, size, tags>>

\* size, err := parseSize(lreader).  Versions 2 and 4 read the field with
\* readBytes and return the error; version 3 reads it with binary.Read,
\* ignores the error and goes on with size 0
ReadSize ==
    /\ mode = "parse"
    /\ pc = "size"
    /\ LET L == FrameLayout(header.Version)
           next == IF L.flags > 0 THEN "flags" ELSE "body"
       IN  \E o \in IF header.Version = 3
                     THEN LoopReadOutcomes(L.sizeLen, capN, buffered, eof)
                     ELSE readBytes(L.sizeLen, capN, buffered, eof) :
             /\ Advance(o)
             /\ IF o.ok
                THEN \E b \in SizeFields(header.Version) :
                       /\ size' = FrameSize(header.Version, b)
                       /\ hist' = [Track(o) EXCEPT !.sizeField = b]
                       /\ pc' = next
                       /\ UNCHANGED result
                ELSE IF header.Version = 3
                THEN /\ size' = 0
                     /\ hist' = [Track(o) EXCEPT !.cut = @ \/ o.hitEnd]
                     /\ pc' = next
                     /\ UNCHANGED result
                ELSE /\ ReturnError
                     /\ hist' = [Track(o) EXCEPT !.cut = @ \/ o.hitEnd]
                     /\ UNCHANGED size
    /\ UNCHANGED <<mode, input, output, applied, header, peeked, tag, tags>>

\* skipBytes(lreader, 2) for versions 3 and 4
SkipFlags ==
    /\ mode = "parse"
    /\ pc = "flags"
    /\ \E o \in skipBytes(FrameLayout(header.Version).flags, capN, buffered, eof) :
          /\ Advance(o)
          /\ IF o.ok
             THEN /\ pc' = "body"
                  /\ hist' = [Track(o) EXCEPT !.flagBytes = o.n]
                  /\ UNCHANGED result
             ELSE /\ Panic
                  /\ hist' = [Track(o) EXCEPT !.cut = TRUE]
    /\ UNCHANGED <<mode, input, output, applied, header, peeked, tag, size, tags>>

\* the value readID3v2String / readID3v2Genre make of a body read whole
FieldValue(name, s) == IF name = "genre" THEN convertID3v1Genre(s) ELSE s

\* the table lookup, the skip of an unknown frame and the switch on the
\* field name.  readID3v2String and readID3v2Genre return "" when readBytes
\* fails; a name of the table that the switch does not list reads nothing
ReadBody ==
    /\ mode = "parse"
    /\ pc = "body"
    /\ LET table == FrameLayout(header.Version).table
           known == tag \in DOMAIN table
           name == IF known THEN table[tag] ELSE ""
       IN  IF ~known
           THEN \E o \in skipBytes(size, capN, buffered, eof) :
                  /\ Advance(o)
                  /\ UNCHANGED tags
                  /\ IF o.ok
                     THEN /\ pc' = "await"
                          /\ hist' = [Track(o) EXCEPT !.frames = @ + 1]
                          /\ UNCHANGED result
                     ELSE /\ Panic
                          /\ hist' = [Track(o) EXCEPT !.cut = TRUE]
           ELSE IF name \notin Fields
           THEN /\ pc' = "await"
                /\ hist' = [hist EXCEPT !.frames = @ + 1]
                /\ UNCHANGED <<capN, buffered, eof, pos, tags, result>>
           ELSE IF size < 0
           THEN /\ Panic
                /\ UNCHANGED <<capN, buffered, eof, pos, tags, hist>>
           ELSE \E o \in readBytes(size, capN, buffered, eof) :
                  /\ Advance(o)
                  /\ IF ~o.ok
                     THEN /\ tags' = [tags EXCEPT ![name] = <<>>]
                          /\ pc' = "await"
                          /\ hist' = [Track(o) EXCEPT !.seen = @ \cup {name},
                                                   !.whole = @ \ {name},
                                                   !.owed = size - o.n,
                                                   !.cut = @ \/ o.hitEnd,
                                                   !.frames = @ + 1]
                          /\ UNCHANGED result
                     ELSE \E body \in Bodies(size) :
                            LET r == parseID3v2String(body)
                            IN  IF r.kind = "panic"
                                THEN /\ Panic
                                     /\ hist' = Track(o)
                                     /\ UNCHANGED tags
                                ELSE /\ tags' = [tags EXCEPT ![name] = FieldValue(name, r.s)]
                                     /\ pc' = "await"
                                     /\ hist' = [Track(o) EXCEPT
                                            !.seen = @ \cup {name},
                                            !.whole = @ \cup {name},
                                            !.last = [@ EXCEPT ![name] = FieldValue(name, r.s)],
                                            !.frames = @ + 1]
                                     /\ UNCHANGED result
    /\ UNCHANGED <<mode, input, output, applied, header, peeked, tag, size>>

NextParse == Start \/ AwaitFrame \/ ReadIdentifier \/ ReadSize \/ SkipFlags \/ ReadBody

SpecParse == InitParse /\ [][NextParse]_vars

-----------------------------------------------------------------------------
(* readBytes and skipBytes applied to a cursor whose buffer holds          *)
(* input.bf bytes and whose stream holds input.cN more: the stream ends    *)
(* where the cap ends, so buffered + capN bytes remain before the end.     *)

CursorInputs ==
    { [fn |-> f, c |-> c, bf |-> b, cN |-> n] :
        f \in {"readBytes", "skipBytes"},
        c \in 0..MaxRead, b \in 0..MaxRead, n \in 0..MaxRead }

InitCursor ==
    /\ mode = "cursor"
    /\ input \in CursorInputs
    /\ output = Outcome(FALSE, 0, 0, 0, FALSE, FALSE)
    /\ applied = FALSE
    /\ pc = "rest"
    /\ header = NoHeader
    /\ capN = input.cN
    /\ buffered = input.bf
    /\ eof = FALSE
    /\ pos = 0
    /\ peeked = <<>>
    /\ tag = <<>>
    /\ size = 0
    /\ tags = EmptyTags
    /\ result = "none"
    /\ hist = NoHist

\* the outcomes of a stream that ends where the cap ends
UntilCap(outcomes) == { o \in outcomes : o.hitEnd => o.capN = 0 }

ApplyReadBytes ==
    /\ mode = "cursor"
    /\ ~applied
    /\ input.fn = "readBytes"
    /\ \E o \in UntilCap(readBytes(input.c, capN, buffered, eof)) :
          /\ Advance(o)
          /\ output' = o
    /\ applied' = TRUE
    /\ UNCHANGED <<mode, input, pc, header, peeked, tag, size, tags, result, hist>>

ApplySkipBytes ==
    /\ mode = "cursor"
    /\ ~applied
    /\ input.fn = "skipBytes"
    /\ \E o \in UntilCap(skipBytes(input.c, capN, buffered, eof)) :
          /\ Advance(o)
          /\ output' = o
    /\ applied' = TRUE
    /\ UNCHANGED <<mode, input, pc, header, peeked, tag, size, tags, result, hist>>

NextCursor == ApplyReadBytes \/ ApplySkipBytes

SpecCursor == InitCursor /\ [][NextCursor]_vars

-----------------------------------------------------------------------------
(* hasID3v1Tag and parseID3v1File on a seekable stream of input.len bytes  *)
(* whose read position is input.start when the function is called.  pos is *)
(* the read position of the stream, hist holds the local origin, the index *)
(* of the frame being read, whether a call on the stream has failed or     *)
(* come short for a reason other than the length of the stream, and the    *)
(* genre byte once it has been read.                                       *)

\* reader.Seek(-128, 2): the tag is the last 128 bytes of the stream
TagBytes == 128

ID3v1Frames ==
    << [name |-> "title", length |-> 30],
       [name |-> "artist", length |-> 30],
       [name |-> "album", length |-> 30],
       [name |-> "year", length |-> 4],
       [name |-> "comment", length |-> 30] >>

\* the stream lengths and the caller's read positions
V1Lengths == {0, 3, TagBytes - 1, TagBytes, TagBytes + ExtraBytes}

V1Inputs ==
    { i \in [ fn : {"hasID3v1Tag", "parseID3v1File"},
               len : V1Lengths,
               start : {0, 1, ExtraBytes, TagBytes} ] : i.start <= i.len }

\* the strings a frame may hold once its trailing NULs are trimmed
V1Texts == { <<>>, <<65>> }

\* the genre bytes of a stream: the first and the last index of the table,
\* the length of the table, the value after it, the largest byte
V1GenreBytes == {0, GenreCount - 1, GenreCount, GenreCount + 1, 255}

\* tags["genre"] = "Unspecified"
GenreUnspecified == <<996>>

\* hist.genre is the genre byte parseID3v1File has read, -1 before that
NoV1Hist == [origin |-> 0, frame |-> 1, io |-> FALSE, genre |-> -1]

InitV1 ==
    /\ mode = "v1"
    /\ input \in V1Inputs
    /\ output = <<>>
    /\ applied = FALSE
    /\ pc = IF input.fn = "hasID3v1Tag" THEN "h_origin" ELSE "p_end"
    /\ header = NoHeader
    /\ capN = 0
    /\ buffered = 0
    /\ eof = FALSE
    /\ pos = input.start
    /\ peeked = <<>>
    /\ tag = <<>>
    /\ size = 0
    /\ tags = [n \in {} |-> <<>>]
    /\ result = "none"
    /\ hist = NoV1Hist

V1Frame == <<mode, input, output, applied, header, capN, buffered, eof, peeked, tag, size>>

\* the function returns: r is what it returns
V1Return(r) ==
    /\ pc' = "done"
    /\ result' = r

\* one Read of c bytes on the stream: the number of bytes it may return;
\* a count below what the stream holds is a short read
V1ReadCounts(c) == 0..Min(c, input.len - pos)

\* origin, err := reader.Seek(0, 1)
HasSeekOrigin ==
    /\ pc = "h_origin"
    /\ \E fail \in BOOLEAN :
          IF fail
          THEN /\ V1Return("false")
               /\ hist' = [hist EXCEPT !.io = TRUE]
          ELSE /\ pc' = "h_end"
               /\ hist' = [hist EXCEPT !.origin = pos]
               /\ UNCHANGED result
    /\ UNCHANGED <<pos, tags>>
    /\ UNCHANGED V1Frame

\* _, err = reader.Seek(-128, 2)
HasSeekEnd ==
    /\ pc = "h_end"
    /\ \E fail \in BOOLEAN :
          IF fail \/ input.len < TagBytes
          THEN /\ V1Return("false")
               /\ hist' = [hist EXCEPT !.io = @ \/ input.len >= TagBytes]
               /\ UNCHANGED pos
          ELSE /\ pc' = "h_read"
               /\ pos' = input.len - TagBytes
               /\ UNCHANGED <<result, hist>>
    /\ UNCHANGED tags
    /\ UNCHANGED V1Frame

\* num, err := reader.Read(buf); if err != nil || num != 3 { return false }
HasRead ==
    /\ pc = "h_read"
    /\ \E num \in V1ReadCounts(3), isTag \in BOOLEAN :
          /\ pos' = pos + num
          /\ IF num # 3
             THEN /\ V1Return("false")
                  /\ hist' = [hist EXCEPT !.io = TRUE]
             ELSE /\ pc' = "h_restore"
                  /\ result' = IF isTag THEN "true" ELSE "false"
                  /\ UNCHANGED hist
    /\ UNCHANGED tags
    /\ UNCHANGED V1Frame

\* reader.Seek(origin, 0); return string(buf) == "TAG"
HasRestore ==
    /\ pc = "h_restore"
    /\ \E fail \in BOOLEAN :
          IF fail
          THEN /\ hist' = [hist EXCEPT !.io = TRUE]
               /\ UNCHANGED pos
          ELSE /\ pos' = hist.origin
               /\ UNCHANGED hist
    /\ pc' = "done"
    /\ UNCHANGED <<result, tags>>
    /\ UNCHANGED V1Frame

\* origin, err := reader.Seek(-128, 2): origin is the position of the tag
ParseSeekEnd ==
    /\ pc = "p_end"
    /\ \E fail \in BOOLEAN :
          IF fail \/ input.len < TagBytes
          THEN /\ V1Return("error")
               /\ hist' = [hist EXCEPT !.io = @ \/ input.len >= TagBytes]
               /\ UNCHANGED pos
          ELSE /\ pc' = "p_header"
               /\ pos' = input.len - TagBytes
               /\ hist' = [hist EXCEPT !.origin = input.len - TagBytes]
               /\ UNCHANGED result
    /\ UNCHANGED tags
    /\ UNCHANGED V1Frame

\* header, err := readID3v1String(reader, 3); err != nil || header != "TAG"
ParseHeader ==
    /\ pc = "p_header"
    /\ \E num \in V1ReadCounts(3), isTag \in BOOLEAN :
          /\ pos' = pos + num
          /\ IF num # 3
             THEN /\ V1Return("error")
                  /\ hist' = [hist EXCEPT !.io = TRUE]
             ELSE IF ~isTag
             THEN /\ V1Return("error")
                  /\ UNCHANGED hist
             ELSE /\ pc' = "p_frame"
                  /\ UNCHANGED <<result, hist>>
    /\ UNCHANGED tags
    /\ UNCHANGED V1Frame

\* for _, v := range ID3v1Frames: str, err := readID3v1String(reader, v.length)
ParseFrame ==
    /\ pc = "p_frame"
    /\ LET v == ID3v1Frames[hist.frame]
       IN  \E num \in V1ReadCounts(v.length), str \in V1Texts :
             /\ pos' = pos + num
             /\ IF num # v.length
                THEN /\ V1Return("error")
                     /\ hist' = [hist EXCEPT !.io = TRUE]
                     /\ UNCHANGED tags
                ELSE /\ tags' = [n \in DOMAIN tags \cup {v.name} |->
                                    IF n = v.name THEN str ELSE tags[n]]
                     /\ IF hist.frame < Len(ID3v1Frames)
                        THEN /\ hist' = [hist EXCEPT !.frame = @ + 1]
                             /\ UNCHANGED pc
                        ELSE /\ pc' = "p_back"
                             /\ UNCHANGED hist
                     /\ UNCHANGED result
    /\ UNCHANGED V1Frame

\* _, err = reader.Seek(-2, 1)
ParseSeekBack ==
    /\ pc = "p_back"
    /\ \E fail \in BOOLEAN :
          IF fail \/ pos < 2
          THEN /\ V1Return("error")
               /\ hist' = [hist EXCEPT !.io = @ \/ pos >= 2]
               /\ UNCHANGED pos
          ELSE /\ pc' = "p_track"
               /\ pos' = pos - 2
               /\ UNCHANGED <<result, hist>>
    /\ UNCHANGED tags
    /\ UNCHANGED V1Frame

\* data, err := readBytes(reader, 2); if data[0] == 0 { tags["track"] = ... }
ParseTrack ==
    /\ pc = "p_track"
    /\ \E num \in V1ReadCounts(2), data \in { <<0, 1>>, <<65, 1>> } :
          /\ pos' = pos + num
          /\ IF num # 2
             THEN /\ V1Return("error")
                  /\ hist' = [hist EXCEPT !.io = TRUE]
                  /\ UNCHANGED tags
             ELSE /\ pc' = "p_genre"
                  /\ tags' = IF data[1] = 0
                             THEN [n \in DOMAIN tags \cup {"track"} |->
                                     IF n = "track" THEN <<48 + data[2]>> ELSE tags[n]]
                             ELSE tags
                  /\ UNCHANGED <<result, hist>>
    /\ UNCHANGED V1Frame

\* data, err = readBytes(reader, 1); the genre byte indexes id3v1Genres
\* unless int(data[0]) > len(id3v1Genres); then reader.Seek(origin, 0)
\* if int(data[0]) > len(id3v1Genres) { "Unspecified" } else { table lookup }:
\* the bytes for which the else branch, the lookup, is taken
V1GenreInRange(g) == ~(g > GenreCount)

ParseGenre ==
    /\ pc = "p_genre"
    /\ \E num \in V1ReadCounts(1), g \in V1GenreBytes, fail \in BOOLEAN :
          IF num # 1
          THEN /\ pos' = pos + num
               /\ V1Return("error")
               /\ hist' = [hist EXCEPT !.io = TRUE]
               /\ UNCHANGED tags
          ELSE IF V1GenreInRange(g) /\ g \notin DOMAIN id3v1Genres
          THEN \* id3v1Genres[int(data[0])] with the index out of range
               /\ pos' = pos + num
               /\ V1Return("panic")
               /\ hist' = [hist EXCEPT !.genre = g]
               /\ UNCHANGED tags
          ELSE /\ tags' = [n \in DOMAIN tags \cup {"genre"} |->
                             IF n # "genre" THEN tags[n]
                             ELSE IF V1GenreInRange(g) THEN id3v1Genres[g]
                                  ELSE GenreUnspecified]
               /\ V1Return("tags")
               /\ IF fail
                  THEN /\ pos' = pos + num
                       /\ hist' = [hist EXCEPT !.io = TRUE, !.genre = g]
                  ELSE /\ pos' = hist.origin
                       /\ hist' = [hist EXCEPT !.genre = g]
    /\ UNCHANGED V1Frame

NextV1 ==
    \/ HasSeekOrigin
    \/ HasSeekEnd
    \/ HasRead
    \/ HasRestore
    \/ ParseSeekEnd
    \/ ParseHeader
    \/ ParseFrame
    \/ ParseSeekBack
    \/ ParseTrack
    \/ ParseGenre

SpecV1 == InitV1 /\ [][NextV1]_vars

-----------------------------------------------------------------------------
(* Two parses on streams of their own, each inside skipBytes.  pc, size,    *)
(* pos and capN are functions of the parse here: its position in           *)
(* skipBytes, its argument c, its local pos and the bytes its stream still *)
(* holds.  hist.written[p] is the number of leading cells of the           *)
(* package-level skipBuffer that parse p has written.                      *)

Procs == {1, 2}

\* var skipBuffer []byte = make([]byte, 1024*4)
SkipBufferLen == 4096

InitRace ==
    /\ mode = "race"
    /\ input = <<>>
    /\ output = <<>>
    /\ applied = FALSE
    /\ pc = [p \in Procs |-> "test"]
    /\ header = NoHeader
    /\ capN \in [Procs -> {1, MaxRead}]
    /\ buffered = 0
    /\ eof = FALSE
    /\ pos = [p \in Procs |-> 0]
    /\ peeked = <<>>
    /\ tag = <<>>
    /\ size \in [Procs -> 0..MaxRead]
    /\ tags = EmptyTags
    /\ result = "none"
    /\ hist = [written |-> [p \in Procs |-> 0]]

RaceFrame == <<mode, input, output, applied, header, buffered, eof, peeked, tag,
               tags, result>>

\* for pos < c
SkipTest(p) ==
    /\ mode = "race"
    /\ pc[p] = "test"
    /\ pc' = [pc EXCEPT ![p] = IF pos[p] < size[p] THEN "read" ELSE "done"]
    /\ UNCHANGED <<capN, pos, size, hist>>
    /\ UNCHANGED RaceFrame

\* i, err := reader.Read(skipBuffer[0:end]); pos += i; panic(err)
SkipRead(p) ==
    /\ mode = "race"
    /\ pc[p] = "read"
    /\ LET end == Min(size[p] - pos[p], SkipBufferLen)
       IN  IF capN[p] = 0
           THEN /\ pc' = [pc EXCEPT ![p] = "panic"]
                /\ UNCHANGED <<capN, pos, hist>>
           ELSE \E i \in 1..Min(end, capN[p]) :
                  /\ capN' = [capN EXCEPT ![p] = @ - i]
                  /\ pos' = [pos EXCEPT ![p] = @ + i]
                  /\ hist' = [hist EXCEPT !.written[p] = Max(@, i)]
                  /\ pc' = [pc EXCEPT ![p] = "test"]
    /\ UNCHANGED size
    /\ UNCHANGED RaceFrame

NextRace == \E p \in Procs : SkipTest(p) \/ SkipRead(p)

SpecRace == InitRace /\ [][NextRace]_vars

-----------------------------------------------------------------------------
(* Claims about the header parser and the sync-safe codec.                 *)

\* C1: for every 10-byte header the parsed flags are the bits of byte 5:
\* Unsynchronization iff bit 7 (0x80), Extended iff bit 6 (0x40),
\* Experimental iff bit 5 (0x20), Footer iff bit 4 (0x10), each flag
\* depending on no other bit.
C1_FlagsAreBits ==
    (mode = "header" /\ applied) =>
        /\ output.Unsynchronization = (BitAnd(input[6], 128) # 0)
        /\ output.Extended = (BitAnd(input[6], 64) # 0)
        /\ output.Experimental = (BitAnd(input[6], 32) # 0)
        /\ output.Footer = (BitAnd(input[6], 16) # 0)

\* C2: for every k in 0 .. 2^28 - 1, encoding k as four bytes of seven
\* usable bits (most significant first, top bit zero) and decoding those
\* bytes with parseID3v2Size returns k.
C2_SyncSafeRoundTrip ==
    (mode = "size" /\ applied /\ input.k >= 0) => output = input.k

C2_Witness ==
    /\ mode = "size"
    /\ applied
    /\ input.k = 268435455
    /\ input.bytes = <<127, 127, 127, 127>>
    /\ output = 268435455

\* C18: the sync-safe decoder ignores the top bit of every input byte: for
\* any 4 bytes the result is the result for the same bytes with bit 7
\* cleared, no input is rejected, and the result lies in 0 .. 2^28 - 1.
C18_TopBitIgnored ==
    (mode = "size" /\ applied) =>
        LET b == input.bytes
        IN  /\ output = (((b[1] % 128) * 128 + (b[2] % 128)) * 128 + (b[3] % 128)) * 128
                            + (b[4] % 128)
            /\ output \in 0..268435455

C18_Witness ==
    /\ mode = "size"
    /\ applied
    /\ input.k = -1
    /\ input.bytes = <<255, 129, 128, 255>>
    /\ output = 266354815

-----------------------------------------------------------------------------
(* Claims about the genre resolver.                                        *)

\* g is neither "RX" nor "CR" and starts with neither "(RX)" nor "(CR)"
PlainGenre(g) ==
    /\ g # <<82, 88>>
    /\ g # <<67, 82>>
    /\ ~HasPrefix(g, <<40, 82, 88, 41>>)
    /\ ~HasPrefix(g, <<40, 67, 82, 41>>)

\* g is an optional sign followed by one or more decimal digits
IsIntegerText(g) ==
    LET ds == IF g # <<>> /\ IsSign(Head(g)) THEN Tail(g) ELSE g
    IN  ds # <<>> /\ \A i \in 1..Len(ds) : IsDigit(ds[i])

\* the integer g denotes, saturated far above every table length
IntegerOf(g) ==
    LET ds == IF IsSign(Head(g)) THEN Tail(g) ELSE g
    IN  IF Head(g) = 45 THEN 0 - DigitsValue(ds, 0) ELSE DigitsValue(ds, 0)

\* the position of the first ")" of g, 0 when there is none
ClosingParen(g) ==
    IF \E i \in 1..Len(g) : g[i] = 41
    THEN CHOOSE i \in 1..Len(g) : g[i] = 41 /\ \A j \in 1..(i - 1) : g[j] # 41
    ELSE 0

\* g starts with "(N)" for an integer N
StartsWithParenInteger(g) ==
    /\ g # <<>>
    /\ Head(g) = 40
    /\ ClosingParen(g) > 2
    /\ IsIntegerText(SubSeq(g, 2, ClosingParen(g) - 1))

ParenIntegerOf(g) == IntegerOf(SubSeq(g, 2, ClosingParen(g) - 1))

\* the table entry at N when 0 <= N < table length, "Unknown" otherwise
Lookup(N) == IF N >= 0 /\ N < GenreCount THEN <<1000 + N>> ELSE GenreUnknown

\* C9: for a string g that is none of the RX/CR forms: if g is entirely a
\* base-10 integer N, or starts with "(N)" followed by any text, the result
\* is the table entry at N when 0 <= N < table length and "Unknown"
\* otherwise; any other string is returned unchanged.
C9_GenreAsClaimed ==
    (mode = "genre" /\ applied /\ PlainGenre(input)) =>
        output = IF IsIntegerText(input) THEN Lookup(IntegerOf(input))
                 ELSE IF StartsWithParenInteger(input) THEN Lookup(ParenIntegerOf(input))
                 ELSE input

\* the number written by the digits ds (with the sign neg) fits a 64-bit int
FitsMachineInt(g) ==
    LET ds == StripZeros(IF IsSign(Head(g)) THEN Tail(g) ELSE g)
    IN  \/ Len(ds) < 19
        \/ /\ Len(ds) = 19
           /\ DigitsLeq(ds, IF Head(g) = 45 THEN [MaxIntDigits EXCEPT ![19] = 56]
                                             ELSE MaxIntDigits)

\* g with the blanks and tabs that follow its first character removed
RECURSIVE DropBlanksAfterFirst(_)
DropBlanksAfterFirst(g) ==
    IF Len(g) >= 2 /\ (g[2] = 32 \/ g[2] = 9)
    THEN DropBlanksAfterFirst(<<Head(g)>> \o SubSeq(g, 3, Len(g)))
    ELSE g

\* C9 as amended: the integer must fit the machine int, and "(" may be
\* followed by blanks before N; an integer that does not fit is returned
\* unchanged.
C9_GenreAmended ==
    (mode = "genre" /\ applied /\ PlainGenre(input)) =>
        LET p == DropBlanksAfterFirst(input)
        IN  output =
                IF IsIntegerText(input) /\ FitsMachineInt(input)
                    THEN Lookup(IntegerOf(input))
                ELSE IF /\ StartsWithParenInteger(p)
                        /\ FitsMachineInt(SubSeq(p, 2, ClosingParen(p) - 1))
                    THEN Lookup(ParenIntegerOf(p))
                ELSE input

C9_Witness ==
    /\ mode = "genre"
    /\ applied
    /\ input = <<40, 50, 41, 32, 65, 65, 65>>
    /\ output = id3v1Genres[2]

-----------------------------------------------------------------------------
(* Claims about the UTF-16 decoder.                                        *)

\* the bytes after the byte-order mark, an odd trailing byte padded with 0
AfterBOM(d) ==
    LET p == IF Len(d) % 2 > 0 THEN Append(d, 0) ELSE d
    IN  SubSeq(p, 3, Len(p))

\* 16-bit code units of r, little-endian or big-endian
CodeUnits(r, bigEndian) ==
    [i \in 1..(Len(r) \div 2) |->
        IF bigEndian THEN r[2 * i - 1] * 256 + r[2 * i]
                     ELSE r[2 * i] * 256 + r[2 * i - 1]]

IsLE(d) == Len(d) >= 2 /\ d[1] = 255 /\ d[2] = 254
IsBE(d) == Len(d) >= 2 /\ d[1] = 254 /\ d[2] = 255

\* C10: for selector 1 both byte-order marks are decoded: after FF FE the
\* rest is grouped into little-endian code units, after FE FF into
\* big-endian code units, an odd trailing byte padded with a zero byte, and
\* in both cases a text string is returned.
C10_BothOrdersDecoded ==
    /\ (mode = "text" /\ applied /\ input.fn = "toUTF16") =>
          /\ IsLE(input.data) =>
                /\ ~output.panic
                /\ output.units = CodeUnits(AfterBOM(input.data), FALSE)
          /\ IsBE(input.data) =>
                /\ ~output.panic
                /\ output.units = CodeUnits(AfterBOM(input.data), TRUE)
    /\ (mode = "text" /\ applied /\ input.fn = "parseID3v2String") =>
          ((input.data # <<>> /\ input.data[1] = 1
              /\ (IsLE(Tail(input.data)) \/ IsBE(Tail(input.data))))
                => output.kind = "ok")

\* the first two text bytes of a selector 1 body are a byte-order mark
HasBOM(d) == IsLE(Tail(d)) \/ IsBE(Tail(d))

\* C11: text decoding never aborts the process: a selector 1 body whose
\* first two text bytes are no byte-order mark, and every selector 2 body,
\* yield a failure value that is returned as an error.
C11_DecodingFailsWithError ==
    (mode = "text" /\ applied /\ input.fn = "parseID3v2String"
     /\ input.data # <<>>
     /\ \/ input.data[1] = 2
        \/ input.data[1] = 1 /\ Len(input.data) >= 3 /\ ~HasBOM(input.data))
        => output.kind = "error"

\* C12: a body of length 0, and a selector 1 body with fewer than 2 bytes
\* after the selector, decode to the empty string: the decoder neither
\* fails nor aborts on them.
C12_ShortBodiesDecodeEmpty ==
    (mode = "text" /\ applied /\ input.fn = "parseID3v2String"
     /\ \/ input.data = <<>>
        \/ input.data[1] = 1 /\ Len(input.data) < 3)
        => (output.kind = "ok" /\ output.s = <<>>)

\* the code points of a string of one- and two-byte UTF-8 sequences
RECURSIVE CodePoints(_)
CodePoints(s) ==
    IF s = <<>> THEN <<>>
    ELSE IF Head(s) < 128 THEN <<Head(s)>> \o CodePoints(Tail(s))
    ELSE <<(Head(s) - 192) * 64 + (s[2] - 128)>> \o CodePoints(SubSeq(s, 3, Len(s)))

\* b without the zeros it ends in
WithoutTrailingZeros(b) ==
    LET keep == { n \in 0..Len(b) :
                    /\ \A i \in (n + 1)..Len(b) : b[i] = 0
                    /\ (n > 0 => b[n] # 0) }
    IN  SubSeq(b, 1, CHOOSE n \in keep : TRUE)

-----------------------------------------------------------------------------
(* Claims about the byte cursor.                                           *)

\* C14: readBytes(n) returns exactly the next n bytes whenever at least n
\* bytes remain before the end of the stream, however the stream delivers
\* them; it fails only when fewer than n bytes remain, and a success never
\* holds fewer than n bytes.
C14_ReadExact ==
    (mode = "cursor" /\ applied /\ input.fn = "readBytes") =>
        /\ output.ok <=> (input.c <= input.bf + input.cN)
        /\ output.ok => (output.n = input.c /\ pos = input.c)

-----------------------------------------------------------------------------
(* Claims about the legacy decoder.                                        *)

\* C15: after hasID3v1Tag returns and after parseID3v1File returns, on
\* every return path, the read position of the stream equals the position
\* it had when the function was called.  Stated for the runs in which no
\* call on the stream fails or comes short.
C15_PositionRestored ==
    (mode = "v1" /\ pc = "done" /\ ~hist.io) => pos = input.start

\* C21: in parseID3v1File the genre table is indexed only with values in
\* 0 .. table length - 1: for every value of the genre byte, the value equal
\* to the table length included, the function returns its tags with the
\* table entry at that index or with the fallback name as the genre, and
\* never indexes outside the table.
C21_GenreIndexInTable ==
    (mode = "v1" /\ pc = "done" /\ hist.genre \in 0..255) =>
        /\ result = "tags"
        /\ tags["genre"] = IF hist.genre \in DOMAIN id3v1Genres
                           THEN id3v1Genres[hist.genre]
                           ELSE GenreUnspecified

\* C16: two parses running concurrently on different streams share no
\* mutable state: no memory location written by one parse, the buffer used
\* to discard skipped bytes included, is read or written by the other.
C16_NoSharedWrites ==
    mode = "race" =>
        \A p, q \in Procs :
            p # q => ~(hist.written[p] > 0 /\ hist.written[q] > 0)

-----------------------------------------------------------------------------
(* Claims about Read and the frame loop.                                   *)

\* C3: for a header whose version byte is not 2, 3 or 4 the parse fails
\* with an error and returns no record, and no byte after the 10-byte
\* header has been consumed when it fails.
C3_UnsupportedVersionFails ==
    (mode = "parse" /\ header.Version \in Byte \ {2, 3, 4}) =>
        /\ pc = "done"
        /\ result = "error"
        /\ tags = EmptyTags
        /\ pos = 0
        /\ buffered = 0
        /\ peeked = <<>>
        /\ hist.frames = 0

C3_Witness ==
    /\ mode = "parse"
    /\ header.Version = 5
    /\ header.Size = MaxSize
    /\ result = "error"

\* C4: the frame layout is selected by the header version alone.  Version
\* 2: a 3-byte identifier, a 24-bit big-endian size, no flag bytes, then
\* the body.  Version 3: a 4-byte identifier, a plain 32-bit big-endian
\* size (the four bytes as a 32-bit word), exactly 2 discarded flag bytes,
\* then the body.  Version 4: a 4-byte identifier, a 4-byte sync-safe size,
\* exactly 2 discarded flag bytes, then the body.
C4_LayoutByVersion ==
    (mode = "parse" /\ pc = "body") =>
        LET b == hist.sizeField
        IN  /\ header.Version = 2 =>
                  /\ hist.idLen = 3
                  /\ Len(b) = 3
                  /\ size = b[1] * 65536 + b[2] * 256 + b[3]
                  /\ hist.flagBytes = 0
                  /\ pos = hist.frameStart + 6
            /\ header.Version = 3 =>
                  /\ hist.idLen = 4
                  /\ Len(b) = 4
                  /\ size % 16777216 = b[2] * 65536 + b[3] * 256 + b[4]
                  /\ size \div 16777216 = (IF b[1] >= 128 THEN b[1] - 256 ELSE b[1])
                  /\ hist.flagBytes = 2
                  /\ pos = hist.frameStart + 10
            /\ header.Version = 4 =>
                  /\ hist.idLen = 4
                  /\ Len(b) = 4
                  /\ size = (((b[1] % 128) * 128 + (b[2] % 128)) * 128
                                + (b[3] % 128)) * 128 + (b[4] % 128)
                  /\ hist.flagBytes = 2
                  /\ pos = hist.frameStart + 10

C4_Witness ==
    /\ mode = "parse"
    /\ pc = "body"
    /\ header.Version = 3
    /\ hist.frames = 1
    /\ hist.sizeField = <<0, 0, 1, 0>>
    /\ size = 256

\* the bytes 'A'-'Z' and '0'-'9'
IdChars == (65..90) \cup (48..57)

\* C5: when the next identifier-width bytes hold a byte outside 'A'-'Z' and
\* '0'-'9', or fewer than that many bytes remain, the loop ends
\* successfully: a record is returned without error and every field keeps
\* the value an earlier frame assigned.
C5_LookaheadEndsLoop ==
    [][ ( /\ mode = "parse"
          /\ pc = "await"
          /\ \/ peeked' = <<>>
             \/ \E i \in 1..Len(peeked') : peeked'[i] \notin IdChars )
        => ( /\ pc' = "done"
             /\ result' = "record"
             /\ tags' = tags ) ]_vars

C5_Witness ==
    /\ mode = "parse"
    /\ pc = "done"
    /\ result = "record"
    /\ hist.stop = "invalid"
    /\ header.Version = 2
    /\ peeked = <<116, 116, 50>>
    /\ hist.frames = 2
    /\ tags["title"] = <<65>>
    /\ tags["genre"] = id3v1Genres[1]

\* C6: if the capped stream ends during any step of reading a frame
\* (identifier, size field, flag bytes or body), the whole parse returns an
\* error: no record, no continuing with a size of 0, no abort.
C6_StreamEndIsError ==
    (mode = "parse" /\ hist.cut) => (pc = "done" /\ result = "error")

\* C7: in the returned record every field for which frames occurred holds
\* the decoded value of the last such frame in stream order, and every
\* other field is empty.  Stated for the streams that hold every frame
\* whole: the stream has not ended inside a frame and owes no body byte.
C7_LastFrameWins ==
    (mode = "parse" /\ pc = "done" /\ result = "record" /\ ~hist.cut
     /\ hist.owed = 0) =>
        \A f \in Fields :
            IF f \in hist.seen
            THEN f \in hist.whole /\ tags[f] = hist.last[f]
            ELSE tags[f] = <<>>

\* C8: for a frame whose identifier is not in the version's table the loop
\* discards exactly the declared size number of body bytes and leaves
\* every field unchanged; the next lookahead starts right after that body.
C8_UnknownFrameSkipped ==
    [][ ( /\ mode = "parse"
          /\ pc = "body"
          /\ tag \notin DOMAIN FrameLayout(header.Version).table
          /\ pc' = "await" )
        => ( /\ pos' = pos + size
             /\ tags' = tags ) ]_vars

\* C17: in every state of the frame iteration the number of bytes taken
\* from the stream after the 10-byte header is at most the header's
\* declared size, whatever sizes the frames declare.
C17_ConsumedWithinDeclaredSize ==
    (mode = "parse" /\ header # NoHeader) =>
        /\ capN >= 0
        /\ pos + buffered <= header.Size
        /\ pos + buffered + capN <= header.Size

C17_Witness ==
    /\ mode = "parse"
    /\ header.Size = MaxSize
    /\ hist.frames = 1
    /\ size = 256
    /\ pos = MaxSize
    /\ buffered = 0

\* C19: after each frame is processed the cursor has advanced by exactly
\* identifier width + size-field width + flag bytes + declared size, for
\* every identifier that passes the A-Z/0-9 check, the identifiers included
\* that the version's table maps to a name outside the eight output fields.
\* Stated for the frames with a non-negative size whose body the stream
\* delivers whole.
C19_FrameAlignment ==
    [][ ( /\ mode = "parse"
          /\ pc = "body"
          /\ pc' = "await"
          /\ size >= 0
          /\ hist.owed = 0
          /\ hist'.owed = 0 )
        => pos' = hist.frameStart + hist.idLen + Len(hist.sizeField)
                      + hist.flagBytes + size ]_vars

\* C20: the body size produced by each of the three frame-size codecs is a
\* non-negative integer for every size field, and a negative length is
\* never passed to the body read or skip.
C20_SizeNonNegative ==
    (mode = "parse" /\ pc \in {"flags", "body"}) => size >= 0

====
